---- MODULE Spec2Model ----
(***************************************************************************)
(* Model of the recent-searches helper (src/unnamed/part_000): the         *)
(* persisted list kept under one local-storage key, the asynchronous       *)
(* load / append / clear operations on it, and the useRecentSearch hook    *)
(* with its debounced append and its effect cleanup.                       *)
(*                                                                         *)
(* Strings are sequences of code points (naturals), so "" is << >> and     *)
(* text.length is Len.  A JSON value is a record [k, s]: k is its kind and  *)
(* s its content (the characters of a string, <<n>> for the number n).     *)
(***************************************************************************)
EXTENDS Integers, Sequences, FiniteSets, TLC

\* ---------------------------------------------------------------- bounds
\* Accessor calls (append / clear) one behaviour of Spec makes.
MaxCalls == 2
\* Clock ticks one behaviour of Spec lets pass.
MaxTicks == 1
\* Host requests of one kind that may be in flight together.
MaxInflight == 2
\* Append calls one behaviour of SpecSeq makes.
MaxAppends == 22
\* Clock ticks one behaviour of SpecSeq lets pass.
MaxSeqTicks == 2
\* Accessor calls one behaviour of SpecHook makes.
MaxHookCalls == 5
\* Clock ticks one behaviour of SpecHook lets pass.
MaxHookTicks == 7
\* Immediate appends one behaviour of SpecHook makes.
MaxHookImmediate == 1

\* ------------------------------------------------------- program constants
\* slice(0, 20) in appendRecentSearchesStore.
Capacity == 20
\* useDebouncedCallback(dispatchAppend, 1500, { maxWait: 3000 }).
DebounceWait == 1500
DebounceMaxWait == 3000
\* The clock advances in steps of a third of the debounce wait.
Tick == DebounceWait \div 3

\* ------------------------------------------------------------ JSON values
JUndef == [k |-> "undef", s |-> << >>]
JNull == [k |-> "null", s |-> << >>]
JNum(n) == [k |-> "num", s |-> <<n>>]
JStr(str) == [k |-> "str", s |-> str]

\* JavaScript truthiness of a JSON value (the left operand of `||`).
Truthy(v) ==
  \/ v.k = "str" /\ Len(v.s) > 0
  \/ v.k = "num" /\ v.s[1] # 0

\* `v || undefined`
OrUndefined(v) == IF Truthy(v) THEN v ELSE JUndef

\* An element of a persisted array: an object with its text and timestamp
\* members (JUndef when the member is missing), a primitive, or null.
JObject(text, timestamp) == [kind |-> "object", text |-> text, timestamp |-> timestamp]
JPrimElem == [kind |-> "prim", text |-> JUndef, timestamp |-> JUndef]
JNullElem == [kind |-> "null", text |-> JUndef, timestamp |-> JUndef]

\* The persisted payload of the key: nothing, text that JSON.parse rejects,
\* JSON that is no array, or a JSON array.
Absent == [kind |-> "absent", elems |-> << >>]
Unparsable == [kind |-> "unparsable", elems |-> << >>]
NonArray == [kind |-> "nonarray", elems |-> << >>]
JArray(elems) == [kind |-> "array", elems |-> elems]

\* ------------------------------------------------------------------ dates
\* A Date: a point in time, or Invalid Date.
DateAt(t) == [valid |-> TRUE, t |-> t]
InvalidDate == [valid |-> FALSE, t |-> 0]

\* Date strings: <<IsoTag, t>> is the ISO-8601 string of time t (what
\* Date.prototype.toJSON produces), <<AltTag, t>> another format that
\* Date's parser accepts; every other string parses to Invalid Date.
IsoTag == 0
AltTag == 100
IsoString(t) == <<IsoTag, t>>
AltString(t) == <<AltTag, t>>

\* new Date(str)
NewDate(str) ==
  IF Len(str) = 2 /\ str[1] \in {IsoTag, AltTag} THEN DateAt(str[2]) ELSE InvalidDate

\* JSON.stringify of a Date member: toJSON gives the ISO string, and null
\* for Invalid Date.
DateToJSON(d) == IF d.valid THEN JStr(IsoString(d.t)) ELSE JNull

\* -------------------------------------------------------- RecentSearch
RecentSearch(text, timestamp) == [text |-> text, timestamp |-> timestamp]

Min(a, b) == IF a < b THEN a ELSE b

\* Array.prototype.slice(0, n)
Slice0(s, n) == SubSeq(s, 1, Min(n, Len(s)))

RemoveAt(s, i) == SubSeq(s, 1, i - 1) \o SubSeq(s, i + 1, Len(s))

\* The body of the for-loop of getRecentSearches for one element r that is
\* not null: the entry pushed, or << >> when r is skipped.
ParseElement(r) ==
  LET t == OrUndefined(r.text)
      hasText == t.k = "str"
      ts == OrUndefined(r.timestamp)
  IN  IF hasText /\ Len(t.s) <= 0 THEN << >>
      ELSE IF ts.k # "str" THEN << >>
      ELSE IF hasText /\ Len(t.s) > 0
           THEN <<RecentSearch(t.s, NewDate(ts.s))>>
           ELSE << >>

RECURSIVE ParseElements(_)
ParseElements(elems) ==
  IF elems = << >> THEN << >>
  ELSE ParseElement(Head(elems)) \o ParseElements(Tail(elems))

\* getRecentSearches whose loop passes over a null element.
ParsePayloadSkipsNull(payload) ==
  IF payload.kind # "array" THEN << >>
  ELSE ParseElements(SelectSeq(payload.elems, LAMBDA r : r.kind # "null"))

\* getRecentSearches on the payload the host returned.  Reading r.text of a
\* null element throws; the catch discards the result built so far.
ParsePayload(payload) ==
  IF payload.kind # "array" THEN << >>
  ELSE IF \E i \in 1..Len(payload.elems) : payload.elems[i].kind = "null" THEN << >>
  ELSE ParseElements(payload.elems)

\* JSON.stringify(recentSearches) in setRecentSearches.
Stringify(list) ==
  JArray([i \in 1..Len(list) |->
            JObject(JStr(list[i].text), DateToJSON(list[i].timestamp))])

\* appendRecentSearchesStore without the slice(0, 20).
FreshDataUncapped(search, data) ==
  IF Len(data) > 0 THEN <<search>> \o data ELSE <<search>>

\* appendRecentSearchesStore that drops the loaded entries of the same text
\* before it prepends the new one.
FreshDataDedup(search, data) ==
  LET others == SelectSeq(data, LAMBDA r : r.text # search.text)
  IN  IF Len(data) > 0 THEN Slice0(<<search>> \o others, Capacity) ELSE <<search>>

\* The list appendRecentSearchesStore writes, given what it loaded.
FreshData(search, data) ==
  IF Len(data) > 0 THEN Slice0(<<search>> \o data, Capacity) ELSE <<search>>

\* ------------------------------------------------------------------ state
VARIABLES
  store,          \* the payload persisted under the key
  now,            \* Date.now()
  phase,          \* the consumer: "rendered", "mounted" (effect ran), "unmounted"
  data,           \* useState<RecentSearch[]>(): [loaded, list]; not loaded = undefined
  cancel,         \* `let cancel` of useRecentSearch
  gets,           \* getRecentSearches calls awaiting getLocalStorageItem
  sets,           \* payloads handed to setLocalStorageItem, not yet persisted
  removes,        \* removeLocalStorageItem calls not yet answered
  lastArgs,       \* debounce: the arguments of the last call, [set, text]
  lastCallTime,   \* debounce: time of the last call, 0 before the first
  lastInvokeTime, \* debounce: time dispatchAppend was last invoked (or armed)
  timerRef,       \* debounce: timerId.current is set
  timer,          \* debounce: deadline of the scheduled timeout, 0 when none
  ncalls,         \* accessor calls made so far
  raised,         \* a store operation rejected to its caller
  unhandled,      \* a promise nobody awaits rejected
  lastReturned,   \* the awaited append that returned last, [set, search]
  dispatched,     \* every dispatchAppend so far: [text, via, at]
  dcalls,         \* every non-immediate appendRecentSearches call: [text, at]
  pendingSince,   \* time of the first debounced call not yet dispatched, 0 if none
  clears          \* clears the host has carried out since the last write

hookVars == <<phase, data, cancel>>
hostVars == <<gets, sets, removes>>
debounceVars == <<lastArgs, lastCallTime, lastInvokeTime, timerRef, timer>>
outcomeVars == <<raised, unhandled, clears>>

vars == <<store, now, hookVars, hostVars, debounceVars, outcomeVars, ncalls,
          lastReturned, dispatched, dcalls, pendingSince>>

NoArgs == [set |-> FALSE, text |-> << >>]
NoSearch == RecentSearch(<< >>, InvalidDate)
NothingReturned == [set |-> FALSE, search |-> NoSearch]

\* No host request is in flight.
Quiescent == gets = << >> /\ sets = << >> /\ removes = 0

\* The state after the first render of a consumer, the key holding payload p.
InitWith(p) ==
  /\ store = p
  /\ now = Tick
  /\ phase = "rendered"
  /\ data = [loaded |-> FALSE, list |-> << >>]
  /\ cancel = FALSE
  /\ gets = << >>
  /\ sets = << >>
  /\ removes = 0
  /\ lastArgs = NoArgs
  /\ lastCallTime = 0
  /\ lastInvokeTime = 0
  /\ timerRef = FALSE
  /\ timer = 0
  /\ ncalls = 0
  /\ raised = FALSE
  /\ unhandled = FALSE
  /\ lastReturned = NothingReturned
  /\ dispatched = << >>
  /\ dcalls = << >>
  /\ pendingSince = 0
  /\ clears = 0

\* --------------------------------------------------- the store operations
\* dispatchAppend(text): appendRecentSearchesStore(key, {text, new Date()})
\* starts by awaiting getRecentSearches.  `via` records who invoked it.
DispatchAppend(text, via) ==
  /\ gets' = Append(gets, [who |-> via,
                           search |-> RecentSearch(text, DateAt(now)),
                           solo |-> Quiescent])
  /\ dispatched' = Append(dispatched, [text |-> text, via |-> via, at |-> now])
  /\ lastReturned' = NothingReturned

NoDispatch == UNCHANGED <<gets, dispatched, lastReturned>>

\* The effect of useRecentSearch: fetchData() starts its load.
Mount ==
  /\ phase = "rendered"
  /\ phase' = "mounted"
  /\ gets' = Append(gets, [who |-> "fetch", search |-> NoSearch, solo |-> FALSE])
  /\ UNCHANGED <<store, now, data, cancel, sets, removes, debounceVars,
                 outcomeVars, ncalls, lastReturned, dispatched, dcalls,
                 pendingSince>>

\* clearAllRecentSearches(): awaits removeLocalStorageItem.
ClearAll ==
  /\ phase = "mounted"
  /\ removes' = removes + 1
  /\ ncalls' = ncalls + 1
  /\ lastReturned' = NothingReturned
  /\ UNCHANGED <<store, now, hookVars, gets, sets, debounceVars, outcomeVars,
                 dispatched, dcalls, pendingSince>>

\* fetchData without the test of cancel: setData(d) whatever happened.
GetResolveNoCancel(i, ok) ==
  /\ i \in 1..Len(gets)
  /\ LET req == gets[i]
         d == IF ok THEN ParsePayload(store) ELSE << >>
     IN  /\ gets' = RemoveAt(gets, i)
         /\ IF req.who = "fetch"
            THEN /\ data' = [loaded |-> TRUE, list |-> d]
                 /\ UNCHANGED <<sets, lastReturned>>
            ELSE /\ sets' = Append(sets, Stringify(FreshData(req.search, d)))
                 /\ lastReturned' =
                      IF req.who = "immediate" /\ req.solo
                      THEN [set |-> TRUE, search |-> req.search]
                      ELSE lastReturned
                 /\ UNCHANGED data
  /\ UNCHANGED <<store, now, phase, cancel, removes, debounceVars, outcomeVars,
                 ncalls, dispatched, dcalls, pendingSince>>

\* An append whose load waits for the writes issued before it: it reads
\* the payload written last, not the persisted one.
GetResolveQueued(i, ok) ==
  /\ i \in 1..Len(gets)
  /\ LET req == gets[i]
         seen == IF sets = << >> THEN store ELSE sets[Len(sets)]
         d == IF ok THEN ParsePayload(seen) ELSE << >>
     IN  /\ gets' = RemoveAt(gets, i)
         /\ IF req.who = "fetch"
            THEN /\ data' = IF cancel THEN data ELSE [loaded |-> TRUE, list |-> d]
                 /\ UNCHANGED <<sets, lastReturned>>
            ELSE /\ sets' = Append(sets, Stringify(FreshData(req.search, d)))
                 /\ lastReturned' =
                      IF req.who = "immediate" /\ req.solo
                      THEN [set |-> TRUE, search |-> req.search]
                      ELSE lastReturned
                 /\ UNCHANGED data
  /\ UNCHANGED <<store, now, phase, cancel, removes, debounceVars, outcomeVars,
                 ncalls, dispatched, dcalls, pendingSince>>

\* getLocalStorageItem answers the i-th waiting getRecentSearches (ok), or
\* fails (the catch makes the result []).  An append goes on, without a
\* further suspension, to hand its list to setLocalStorageItem, which it
\* does not await, and returns; fetchData stores the result unless cancelled.
GetResolve(i, ok) ==
  /\ i \in 1..Len(gets)
  /\ LET req == gets[i]
         d == IF ok THEN ParsePayload(store) ELSE << >>
     IN  /\ gets' = RemoveAt(gets, i)
         /\ IF req.who = "fetch"
            THEN /\ data' = IF cancel THEN data ELSE [loaded |-> TRUE, list |-> d]
                 /\ UNCHANGED <<sets, lastReturned>>
            ELSE /\ sets' = Append(sets, Stringify(FreshData(req.search, d)))
                 /\ lastReturned' =
                      IF req.who = "immediate" /\ req.solo
                      THEN [set |-> TRUE, search |-> req.search]
                      ELSE lastReturned
                 /\ UNCHANGED data
  /\ UNCHANGED <<store, now, phase, cancel, removes, debounceVars, outcomeVars,
                 ncalls, dispatched, dcalls, pendingSince>>

\* A host that drops a write arriving after a removal of the key.
SetResolveDroppedAfterClear(i, ok) ==
  /\ i \in 1..Len(sets)
  /\ sets' = RemoveAt(sets, i)
  /\ store' = IF ok /\ clears = 0 THEN sets[i] ELSE store
  /\ unhandled' = (unhandled \/ ~ok)
  /\ clears' = IF ok THEN 0 ELSE clears
  /\ UNCHANGED <<now, hookVars, gets, removes, debounceVars, raised, ncalls,
                 lastReturned, dispatched, dcalls, pendingSince>>

\* setLocalStorageItem persists the i-th pending payload (ok), or fails: the
\* promise setRecentSearches returned is awaited by nobody.
SetResolve(i, ok) ==
  /\ i \in 1..Len(sets)
  /\ sets' = RemoveAt(sets, i)
  /\ store' = IF ok THEN sets[i] ELSE store
  /\ unhandled' = (unhandled \/ ~ok)
  /\ clears' = IF ok THEN 0 ELSE clears
  /\ UNCHANGED <<now, hookVars, gets, removes, debounceVars, raised, ncalls,
                 lastReturned, dispatched, dcalls, pendingSince>>

\* A clear that persists an empty list in place of removing the payload.
RemoveResolveWritesEmpty(ok) ==
  /\ removes > 0
  /\ removes' = removes - 1
  /\ store' = IF ok THEN JArray(<< >>) ELSE store
  /\ raised' = (raised \/ ~ok)
  /\ clears' = IF ok THEN clears + 1 ELSE clears
  /\ UNCHANGED <<now, hookVars, gets, sets, debounceVars, unhandled, ncalls,
                 lastReturned, dispatched, dcalls, pendingSince>>

\* removeLocalStorageItem removes the payload (ok), or fails: the awaits of
\* clearRecentSearchesStore and clearAllRecentSearches pass the rejection on.
RemoveResolve(ok) ==
  /\ removes > 0
  /\ removes' = removes - 1
  /\ store' = IF ok THEN Absent ELSE store
  /\ raised' = (raised \/ ~ok)
  /\ clears' = IF ok THEN clears + 1 ELSE clears
  /\ UNCHANGED <<now, hookVars, gets, sets, debounceVars, unhandled, ncalls,
                 lastReturned, dispatched, dcalls, pendingSince>>

\* Time passes; a due timeout runs first.
TickTo(limit) ==
  /\ now < limit
  /\ timer = 0 \/ timer > now
  /\ now' = now + Tick
  /\ UNCHANGED <<store, hookVars, hostVars, debounceVars, outcomeVars, ncalls,
                 lastReturned, dispatched, dcalls, pendingSince>>

\* ------------------------------------------------ the debounced callback
\* useDebouncedCallback(dispatchAppend, 1500) has no maximum wait.
maxingOff == FALSE

\* useDebouncedCallback(dispatchAppend, 1500, { maxWait: 3000 }): trailing
\* edge only (the default), with a maximum wait.
maxing == TRUE

\* shouldInvoke(time)
ShouldInvoke(time) ==
  \/ lastCallTime = 0
  \/ time - lastCallTime >= DebounceWait
  \/ time - lastCallTime < 0
  \/ maxing /\ time - lastInvokeTime >= DebounceMaxWait

\* invokeFunc(time): dispatchAppend with the last arguments.
InvokeFunc(time, text, via) ==
  /\ lastArgs' = NoArgs
  /\ lastInvokeTime' = time
  /\ pendingSince' = 0
  /\ DispatchAppend(text, via)

\* trailingEdge(time)
TrailingEdge(time, via) ==
  /\ timerRef' = FALSE
  /\ IF lastArgs.set
     THEN InvokeFunc(time, lastArgs.text, via)
     ELSE /\ lastArgs' = NoArgs
          /\ UNCHANGED <<lastInvokeTime, pendingSince>>
          /\ NoDispatch

\* debounced(text)
Debounced(text) ==
  /\ lastCallTime' = now
  /\ timerRef' = TRUE
  /\ IF ShouldInvoke(now) /\ ~timerRef
     THEN \* the leading edge: arm the timer, invoke nothing
          /\ lastInvokeTime' = now
          /\ timer' = now + DebounceWait
          /\ lastArgs' = [set |-> TRUE, text |-> text]
          /\ pendingSince' = IF pendingSince = 0 THEN now ELSE pendingSince
          /\ lastReturned' = NothingReturned
          /\ UNCHANGED <<gets, dispatched>>
     ELSE IF ShouldInvoke(now) /\ maxing
     THEN \* the maximum wait is over: restart the timer and invoke
          /\ timer' = now + DebounceWait
          /\ InvokeFunc(now, text, "call")
     ELSE /\ timer' = IF timerRef THEN timer ELSE now + DebounceWait
          /\ lastArgs' = [set |-> TRUE, text |-> text]
          /\ pendingSince' = IF pendingSince = 0 THEN now ELSE pendingSince
          /\ lastReturned' = NothingReturned
          /\ UNCHANGED <<lastInvokeTime, gets, dispatched>>

\* The time timerExpired re-arms the timer for.
RemainingWait(time) ==
  LET timeWaiting == DebounceWait - (time - lastCallTime)
  IN  IF maxing
      THEN Min(timeWaiting, DebounceMaxWait - (time - lastInvokeTime))
      ELSE timeWaiting

\* timerExpired(): the scheduled timeout runs.
TimerExpired ==
  /\ timer # 0
  /\ now >= timer
  /\ IF ShouldInvoke(now)
     THEN /\ timer' = 0
          /\ TrailingEdge(now, "timer")
     ELSE /\ timer' = now + RemainingWait(now)
          /\ UNCHANGED <<timerRef, lastArgs, lastInvokeTime, pendingSince>>
          /\ NoDispatch
  /\ UNCHANGED <<store, now, hookVars, sets, removes, lastCallTime, outcomeVars,
                 ncalls, dcalls>>

\* debounced.flush(): the timeout stays scheduled, only timerId is reset.
Flush ==
  IF timerRef
  THEN TrailingEdge(now, "flush")
  ELSE /\ UNCHANGED <<timerRef, lastArgs, lastInvokeTime, pendingSince>>
       /\ NoDispatch

\* ------------------------------------------------------ useRecentSearch
\* appendRecentSearches(text, noDelay), without awaiting dispatchAppend.
AppendRecentSearchesNoDebounce(text, noDelay) ==
  /\ phase = "mounted"
  /\ ncalls' = ncalls + 1
  /\ dcalls' = IF noDelay THEN dcalls ELSE Append(dcalls, [text |-> text, at |-> now])
  /\ DispatchAppend(text, IF noDelay THEN "immediate" ELSE "call")
  /\ UNCHANGED <<debounceVars, pendingSince>>
  /\ UNCHANGED <<store, now, hookVars, sets, removes, outcomeVars>>

\* appendRecentSearches(text, noDelay) with debounced.cancel() before the
\* immediate dispatchAppend.
AppendRecentSearchesCancelling(text, noDelay) ==
  /\ phase = "mounted"
  /\ ncalls' = ncalls + 1
  /\ IF noDelay
     THEN /\ DispatchAppend(text, "immediate")
          /\ lastArgs' = NoArgs
          /\ lastCallTime' = 0
          /\ lastInvokeTime' = 0
          /\ timerRef' = FALSE
          /\ timer' = 0
          /\ pendingSince' = 0
          /\ UNCHANGED dcalls
     ELSE /\ dcalls' = Append(dcalls, [text |-> text, at |-> now])
          /\ Debounced(text)
  /\ UNCHANGED <<store, now, hookVars, sets, removes, outcomeVars>>

\* appendRecentSearches(text, noDelay): dispatchAppend at once when noDelay
\* is set, the debounced callback otherwise.
AppendRecentSearches(text, noDelay) ==
  /\ phase = "mounted"
  /\ ncalls' = ncalls + 1
  /\ IF noDelay
     THEN /\ DispatchAppend(text, "immediate")
          /\ UNCHANGED <<debounceVars, dcalls, pendingSince>>
     ELSE /\ dcalls' = Append(dcalls, [text |-> text, at |-> now])
          /\ Debounced(text)
  /\ UNCHANGED <<store, now, hookVars, sets, removes, outcomeVars>>

\* The cleanup of the effect, with debounced.cancel() for debounced.flush().
TeardownCancel ==
  /\ phase = "mounted"
  /\ phase' = "unmounted"
  /\ cancel' = TRUE
  /\ timerRef' = FALSE
  /\ timer' = 0
  /\ lastArgs' = NoArgs
  /\ lastCallTime' = 0
  /\ lastInvokeTime' = 0
  /\ pendingSince' = 0
  /\ NoDispatch
  /\ UNCHANGED <<store, now, data, sets, removes, outcomeVars, ncalls, dcalls>>

\* The cleanup of the effect: cancel = true; debounced.flush().
Teardown ==
  /\ phase = "mounted"
  /\ phase' = "unmounted"
  /\ cancel' = TRUE
  /\ Flush
  /\ UNCHANGED <<store, now, data, sets, removes, lastCallTime, timer,
                 outcomeVars, ncalls, dcalls>>

\* ------------------------------------------------------------ the inputs
\* Texts: "a", "b", "c" and the empty string.
TextA == <<1>>
TextB == <<2>>
TextC == <<3>>
EmptyText == << >>
\* "not-a-date"
NotADate == <<7, 7>>

\* The payload of the malformed-data example: {text:a}, {timestamp only},
\* {text:b, timestamp:"not-a-date"}, {text:c, timestamp: a valid date}.
ExamplePayload ==
  JArray(<<JObject(JStr(TextA), JUndef),
           JObject(JUndef, JStr(AltString(1))),
           JObject(JStr(TextB), JStr(NotADate)),
           JObject(JStr(TextC), JStr(IsoString(2)))>>)

\* A well-formed list holding the same text twice.
GoodPayload ==
  JArray(<<JObject(JStr(TextB), JStr(IsoString(2))),
           JObject(JStr(TextA), JStr(IsoString(1))),
           JObject(JStr(TextB), JStr(IsoString(1)))>>)

\* Elements of other shapes around a well-formed one: an empty text, a
\* number for text, a null timestamp, a primitive, and a null element.
OddPayload ==
  JArray(<<JObject(JStr(EmptyText), JStr(IsoString(1))),
           JObject(JNum(5), JStr(IsoString(1))),
           JObject(JStr(TextA), JNull),
           JPrimElem,
           JObject(JStr(TextC), JStr(IsoString(2)))>>)

NullElemPayload ==
  JArray(<<JObject(JStr(TextC), JStr(IsoString(2))), JNullElem>>)

\* A list at capacity, most recent first.
FullPayload ==
  JArray([i \in 1..Capacity |->
            JObject(JStr(<<100 + i>>), JStr(IsoString(Capacity + 1 - i)))])

InitialPayloads ==
  {Absent, Unparsable, NonArray, JArray(<< >>), ExamplePayload, GoodPayload,
   OddPayload, NullElemPayload, FullPayload}

\* The texts the accessors are called with in Spec.
StoreTexts == {EmptyText, TextA}

\* What the user has typed when the n-th debounced call is made: "a", "ab",
\* "abc", ...
TypedText(n) == [i \in 1..n |-> i]

\* The text of the n-th append of SpecSeq: all distinct, none empty.
SeqText(n) == <<n>>

\* ------------------------------------------------------- specifications
\* Spec: the store operations of one consumer on any initial payload, the
\* host answering in any order and failing at will.
Init == \E p \in InitialPayloads : InitWith(p)

Next ==
  \/ Mount
  \/ \E text \in StoreTexts :
       /\ ncalls < MaxCalls
       /\ Len(gets) < MaxInflight
       /\ AppendRecentSearches(text, TRUE)
  \/ /\ ncalls < MaxCalls
     /\ removes < MaxInflight
     /\ ClearAll
  \/ \E i \in 1..Len(gets) : \E ok \in BOOLEAN : GetResolve(i, ok)
  \/ \E i \in 1..Len(sets) : \E ok \in BOOLEAN : SetResolve(i, ok)
  \/ \E ok \in BOOLEAN : RemoveResolve(ok)
  \/ TickTo(Tick * (1 + MaxTicks))

Spec == Init /\ [][Next]_vars

\* SpecSeq: appends of distinct texts to an empty store, one after the
\* other, each made once the host has answered everything before it.
InitSeq == InitWith(Absent)

NextSeq ==
  \/ Mount
  \/ /\ Quiescent
     /\ ncalls < MaxAppends
     /\ AppendRecentSearches(SeqText(ncalls + 1), TRUE)
  \/ GetResolve(1, TRUE)
  \/ SetResolve(1, TRUE)
  \/ TickTo(Tick * (1 + MaxSeqTicks))

SpecSeq == InitSeq /\ [][NextSeq]_vars

\* SpecHook: search-as-you-type through the debounced accessor, immediate
\* appends, the timer and the teardown of the consumer.  The host answers
\* every request, within one step of the clock.
InitHook == InitWith(Absent)

Immediates == {i \in 1..Len(dispatched) : dispatched[i].via = "immediate"}

NextHook ==
  \/ Mount
  \/ /\ ncalls < MaxHookCalls
     /\ AppendRecentSearches(TypedText(Len(dcalls) + 1), FALSE)
  \/ /\ ncalls < MaxHookCalls
     /\ Cardinality(Immediates) < MaxHookImmediate
     /\ AppendRecentSearches(TextC, TRUE)
  \/ TimerExpired
  \/ Teardown
  \/ \E i \in 1..Len(gets) : GetResolve(i, TRUE)
  \/ \E i \in 1..Len(sets) : SetResolve(i, TRUE)
  \/ /\ Quiescent
     /\ TickTo(Tick * (1 + MaxHookTicks))

SpecHook == InitHook /\ [][NextHook]_vars

\* ----------------------------------------------------------- properties
Texts(list) == [i \in 1..Len(list) |-> list[i].text]

\* The dispatches the debounced callback made (timer, call or flush).
Debounces == SelectSeq(dispatched, LAMBDA d : d.via # "immediate")

\* What is persisted or on its way to be: the store and the pending writes.
Payloads == {store} \cup {sets[i] : i \in 1..Len(sets)}

\* C1: after N >= 21 successive appends of distinct non-empty texts to an
\* empty store, each made once the one before is persisted, load returns
\* exactly 20 entries, the 20 appended last, most recent first.
C1_CapacityBound ==
  (Quiescent /\ Len(dispatched) >= Capacity + 1) =>
    LET l == ParsePayload(store)
    IN  /\ Len(l) = Capacity
        /\ \A i \in 1..Capacity :
             /\ l[i].text = dispatched[Len(dispatched) + 1 - i].text
             /\ l[i].timestamp = DateAt(dispatched[Len(dispatched) + 1 - i].at)

C1_Witness ==
  /\ Quiescent
  /\ Len(dispatched) = Capacity + 2
  /\ Len(ParsePayload(store)) = Capacity
  /\ ParsePayload(store)[1].text = SeqText(Capacity + 2)

\* C2: append(key, "") is a no-op: the step in which an append of the empty
\* text gets its load answered issues no write.
C2_EmptyAppendIsNoOp ==
  [][\A i \in 1..Len(gets) :
       (/\ gets[i].who # "fetch"
        /\ gets[i].search.text = EmptyText
        /\ gets' = RemoveAt(gets, i)) => sets' = sets]_vars

\* C3: load accepts an element only with a non-empty string text and a
\* timestamp string that parses as a valid date; the loaded data of the
\* malformed-data example is the one entry with text c.
C3_LoadAcceptsOnlyValid ==
  data.loaded =>
    /\ \A i \in 1..Len(data.list) :
         Len(data.list[i].text) > 0 /\ data.list[i].timestamp.valid
    /\ (store = ExamplePayload /\ data.list # << >>) =>
         data.list = <<RecentSearch(TextC, DateAt(2))>>

\* C4: once an append has returned to its caller, and nothing else has been
\* started on the key, the persisted list starts with the appended entry.
C4_AppendReturnsAfterWrite ==
  lastReturned.set =>
    LET l == ParsePayload(store)
    IN  l # << >> /\ l[1] = lastReturned.search

\* C5: no store operation ever rejects to its caller.
C5_NeverRaises == ~raised

\* C6: three debounced calls a, ab, abc, each less than 1500 after the one
\* before, lead to exactly one append, of abc, once the quiet period is
\* over; a and ab are never persisted.
BurstOfThree ==
  /\ Len(dcalls) = 3
  /\ \A i \in 2..3 : dcalls[i].at - dcalls[i - 1].at < DebounceWait

QuietAfterBurst ==
  /\ now - dcalls[3].at >= DebounceWait
  /\ ~(timer # 0 /\ now >= timer)

C6_Coalescing ==
  BurstOfThree =>
    /\ Texts(Debounces) \in {<< >>, <<TypedText(3)>>}
    /\ QuietAfterBurst => Len(Debounces) = 1
    /\ \A p \in Payloads : \A j \in 1..Len(p.elems) :
         p.elems[j].text \notin {JStr(TypedText(1)), JStr(TypedText(2))}
    /\ (QuietAfterBurst /\ Quiescent /\ Immediates = {}) =>
         Texts(ParsePayload(store)) = <<TypedText(3)>>

C6_Witness ==
  /\ BurstOfThree
  /\ QuietAfterBurst
  /\ Quiescent
  /\ phase = "mounted"
  /\ Texts(Debounces) = <<TypedText(3)>>
  /\ Texts(ParsePayload(store)) = <<TypedText(3)>>

\* C7: a debounced call never waits more than 3000 from the first call not
\* yet dispatched, and calls that keep arriving less than 1500 apart over
\* more than 3000 have seen an append before the final one.
Continuous ==
  \A i \in 2..Len(dcalls) : dcalls[i].at - dcalls[i - 1].at < DebounceWait

LongBurst ==
  /\ Len(dcalls) >= 2
  /\ Continuous
  /\ dcalls[Len(dcalls)].at - dcalls[1].at > DebounceMaxWait

C7_MaxWait ==
  /\ pendingSince # 0 => now - pendingSince <= DebounceMaxWait
  /\ LongBurst =>
       \E i \in 1..Len(Debounces) :
         /\ Debounces[i].at <= dcalls[1].at + DebounceMaxWait
         /\ Debounces[i].at < dcalls[Len(dcalls)].at

C7_Witness ==
  /\ LongBurst
  /\ phase = "mounted"
  /\ Len(Debounces) >= 1
  /\ Debounces[1].at = dcalls[1].at + DebounceMaxWait
  /\ pendingSince # 0

\* C8: a clear the host carries out leaves the key without payload, so
\* that load returns nothing, and raises nothing; carried out on a key that
\* is already empty, or a second time, it changes nothing.
C8_ClearIdempotent ==
  [][clears' = clears + 1 =>
       /\ store' = Absent
       /\ ParsePayload(store') = << >>
       /\ raised' = raised
       /\ (clears >= 1 \/ store = Absent) => store' = store]_vars

C8_Witness ==
  /\ clears >= 2
  /\ ~raised
  /\ store = Absent

\* C9: every payload the store writes is an array of objects with a string
\* text and an ISO-8601 date-string timestamp.
IsIsoDate(v) == v.k = "str" /\ Len(v.s) = 2 /\ v.s[1] = IsoTag

C9_WritesWellFormed ==
  \A i \in 1..Len(sets) :
    /\ sets[i].kind = "array"
    /\ \A j \in 1..Len(sets[i].elems) :
         /\ sets[i].elems[j].kind = "object"
         /\ sets[i].elems[j].text.k = "str"
         /\ IsIsoDate(sets[i].elems[j].timestamp)

\* C10: the teardown appends the pending debounced call, with the text
\* submitted last, in that very step, and after the teardown nothing is
\* dispatched any more.
C10_TeardownFlush ==
  [][/\ (phase = "mounted" /\ phase' = "unmounted") =>
          IF pendingSince # 0
          THEN /\ dispatched' = Append(dispatched,
                                   [text |-> dcalls[Len(dcalls)].text,
                                    via |-> "flush", at |-> now])
               /\ Len(gets') = Len(gets) + 1
               /\ gets'[Len(gets')].search =
                    RecentSearch(dcalls[Len(dcalls)].text, DateAt(now))
               /\ pendingSince' = 0
          ELSE dispatched' = dispatched /\ gets' = gets
     /\ phase = "unmounted" => dispatched' = dispatched]_vars

C10_Witness ==
  /\ phase = "unmounted"
  /\ dispatched # << >>
  /\ dispatched[Len(dispatched)].via = "flush"
  /\ now > dispatched[Len(dispatched)].at + DebounceWait
  /\ timer = 0
  /\ Quiescent
  /\ ParsePayload(store) # << >>
  /\ ParsePayload(store)[1].text = dcalls[Len(dcalls)].text

\* C11: the exposed data is undefined until the first load resolves, and
\* on a live consumer with nothing in flight, after an append or a clear,
\* it equals what load returns.
C11_DataMirrorsStore ==
  /\ (phase = "rendered" \/ (ncalls = 0 /\ \E i \in 1..Len(gets) : gets[i].who = "fetch"))
       => ~data.loaded
  /\ (phase = "mounted" /\ Quiescent /\ ncalls >= 1) =>
       data.loaded /\ data.list = ParsePayload(store)

\* C12: two appends that have both loaded before either has written each
\* carry their own entry and not the other's; the write that lands makes
\* its payload the persisted one, whatever else is pending.
\* The elements of payload p that some append so far has made.
NewElems(p) ==
  {j \in 1..Len(p.elems) :
     \E k \in 1..Len(dispatched) :
       p.elems[j] = JObject(JStr(dispatched[k].text),
                            JStr(IsoString(dispatched[k].at)))}

TwoWritesPending == Len(dispatched) = 2 /\ Len(sets) = 2

C12_LastWriteWins ==
  [][/\ TwoWritesPending => \A i \in 1..2 : NewElems(sets[i]) = {1}
     /\ (TwoWritesPending /\ Len(sets') = 1 /\ ~unhandled') =>
          \E i \in 1..2 :
            /\ sets' = RemoveAt(sets, i)
            /\ store' = sets[i]
            /\ NewElems(store') = {1}]_vars

C12_Witness ==
  /\ Quiescent
  /\ ~unhandled
  /\ Len(dispatched) = 2
  /\ dispatched[1].text = TextA
  /\ dispatched[2].text = TextA
  /\ dispatched[1].at < dispatched[2].at
  /\ Texts(ParsePayload(store)) = <<TextA>> \o Texts(ParsePayload(GoodPayload))

\* C13: the persisted list, and every list on its way to be persisted,
\* has at most 20 entries.
C13_CapacityInvariant ==
  \A p \in Payloads :
    Len(p.elems) <= Capacity /\ Len(ParsePayload(p)) <= Capacity

C13_Witness ==
  /\ Len(store.elems) = Capacity
  /\ store.elems[1].text = JStr(TextA)
  /\ store.elems[2] = FullPayload.elems[1]
  /\ store.elems[Capacity] = FullPayload.elems[Capacity - 1]

\* C14: load returns exactly the well-formed persisted elements, in their
\* persisted order: a malformed element of any shape is skipped without a
\* well-formed sibling being dropped, and no returned entry has empty text.
WellFormed(r) ==
  /\ r.kind = "object"
  /\ r.text.k = "str" /\ Len(r.text.s) > 0
  /\ r.timestamp.k = "str" /\ NewDate(r.timestamp.s).valid

ExpectedLoad(p) ==
  IF p.kind # "array" THEN << >>
  ELSE LET good == SelectSeq(p.elems, WellFormed)
       IN  [i \in 1..Len(good) |->
              RecentSearch(good[i].text.s, NewDate(good[i].timestamp.s))]

C14_LoadKeepsWellFormed ==
  \A p \in Payloads :
    /\ ParsePayload(p) = ExpectedLoad(p)
    /\ \A i \in 1..Len(ParsePayload(p)) : Len(ParsePayload(p)[i].text) > 0

\* C15: once the consumer is torn down no load updates its data, the one
\* in flight at the teardown included, while an append dispatched by the
\* teardown's flush still hands its list to the host when its load is
\* answered.
C15_CancelFlag ==
  [][/\ cancel => data' = data
     /\ \A i \in 1..Len(gets) :
          (/\ phase = "unmounted"
           /\ gets[i].who = "flush"
           /\ gets' = RemoveAt(gets, i)) =>
            /\ Len(sets') = Len(sets) + 1
            /\ sets'[Len(sets')].elems[1] =
                 JObject(JStr(gets[i].search.text),
                         DateToJSON(gets[i].search.timestamp))]_vars

C15_Witness ==
  /\ phase = "unmounted"
  /\ Quiescent
  /\ ~data.loaded
  /\ dispatched # << >>
  /\ dispatched[Len(dispatched)].via = "flush"
  /\ ParsePayload(store) # << >>
  /\ ParsePayload(store)[1] =
       RecentSearch(dispatched[Len(dispatched)].text,
                    DateAt(dispatched[Len(dispatched)].at))

\* C17: an immediate append leaves the debounced callback as it is; the
\* pending call is dispatched by its timer later, and once both are
\* persisted its entry heads the list, above the immediately appended one.
ImmediateStep ==
  /\ Len(dispatched') = Len(dispatched) + 1
  /\ dispatched'[Len(dispatched')].via = "immediate"

\* The last two dispatches: an immediate append, then, later, the timer's.
ImmediateThenTimer ==
  /\ Len(dispatched) >= 2
  /\ dispatched[Len(dispatched) - 1].via = "immediate"
  /\ dispatched[Len(dispatched)].via = "timer"
  /\ dispatched[Len(dispatched) - 1].at < dispatched[Len(dispatched)].at

\* The entry the k-th dispatch builds.
Dispatched(k) == RecentSearch(dispatched[k].text, DateAt(dispatched[k].at))

\* The immediate append's entry is in the store: its write was not lost to
\* one overlapping it.
ImmediatePersisted ==
  \E j \in 1..Len(ParsePayload(store)) :
    ParsePayload(store)[j] = Dispatched(Len(dispatched) - 1)

C17_ImmediateKeepsPending ==
  [][/\ ImmediateStep =>
          /\ UNCHANGED <<lastArgs, lastCallTime, lastInvokeTime, timerRef, timer>>
          /\ pendingSince' = pendingSince
     /\ (ImmediateThenTimer /\ Quiescent /\ ImmediatePersisted) =>
          LET l == ParsePayload(store)
          IN  /\ Len(l) >= 2
              /\ l[1] = Dispatched(Len(dispatched))
              /\ \E j \in 2..Len(l) : l[j] = Dispatched(Len(dispatched) - 1)]_vars

C17_Witness ==
  /\ ImmediateThenTimer
  /\ Quiescent
  /\ dcalls # << >>
  /\ dcalls[Len(dcalls)].at < dispatched[Len(dispatched) - 1].at
  /\ dispatched[Len(dispatched)].text = dcalls[Len(dcalls)].text
  /\ Texts(ParsePayload(store)) = <<dcalls[Len(dcalls)].text, TextC>>

\* The i-th load in flight is an append's and this step answers it.
AppendLoadAnswered(i) ==
  /\ gets[i].who # "fetch"
  /\ gets' = RemoveAt(gets, i)
  /\ Len(sets') = Len(sets) + 1

\* The payload the step hands to the host.
Pushed == sets'[Len(sets')]

\* C16: an append puts the new entry first and keeps every loaded entry
\* behind it in its order, those of the same text included, up to 20
\* entries in all; nothing is merged, promoted or removed.  (A load that
\* failed yields the new entry alone.)
C16_DuplicatesKept ==
  [][\A i \in 1..Len(gets) :
       AppendLoadAnswered(i) =>
         LET old == Stringify(ParsePayload(store)).elems
             new == Stringify(<<gets[i].search>>).elems[1]
         IN  \/ Pushed = JArray(<<new>>)
             \/ /\ Pushed.kind = "array"
                /\ Len(Pushed.elems) = Min(Len(old) + 1, Capacity)
                /\ Pushed.elems[1] = new
                /\ \A j \in 2..Len(Pushed.elems) :
                     Pushed.elems[j] = old[j - 1]]_vars

C16_Witness ==
  /\ Quiescent
  /\ Len(dispatched) = 1
  /\ dispatched[1].text = TextA
  /\ dispatched[1].at > 1
  /\ clears = 0
  /\ ParsePayload(store) =
       <<Dispatched(1)>> \o ParsePayload(GoodPayload)
  /\ Cardinality({j \in 1..Len(ParsePayload(store)) :
                    ParsePayload(store)[j].text = TextA}) = 2

\* C18: a write that reaches the host after a clear has removed the key
\* is persisted as it was built, the entries loaded before the clear
\* included: while a clear is the last mutation the key is absent, and an
\* append's write answered then (no write having failed) becomes the stored
\* payload.
C18_ClearUndone ==
  [][/\ clears >= 1 => store = Absent
     /\ \A i \in 1..Len(sets) :
          (/\ clears >= 1
           /\ sets' = RemoveAt(sets, i)
           /\ Len(sets') = Len(sets) - 1
           /\ ~unhandled') =>
            /\ store' = sets[i]
            /\ ParsePayload(store') = ParsePayload(sets[i])]_vars

\* One append and one clear, both finished without a failure, and the
\* entries stored before the clear are loaded again behind the new one.
C18_Witness ==
  /\ Quiescent
  /\ ncalls = 2
  /\ Len(dispatched) = 1
  /\ removes = 0
  /\ ~raised
  /\ ~unhandled
  /\ clears = 0
  /\ ParsePayload(store) # << >>
  /\ Tail(ParsePayload(store)) = ParsePayload(GoodPayload)

\* The payload is one getRecentSearches cannot read: not JSON, not an
\* array, or an array with a null element.
Unreadable(payload) ==
  \/ payload.kind \in {"unparsable", "nonarray"}
  \/ /\ payload.kind = "array"
     /\ \E j \in 1..Len(payload.elems) : payload.elems[j] = JNullElem

====
